---- MODULE Spec2Model ----
(***************************************************************************)
(* Model of the marketing agent's orchestration engine:                    *)
(*   src/src/agent/workflow.py          MarketingAgent (LangGraph workflow) *)
(*   src/src/data_collectors/context_builder.py   ContextBuilder            *)
(*   src/src/config/settings.py         Settings                            *)
(* One behaviour of Spec or SpecStub is one call of                         *)
(* MarketingAgent.analyze_campaign.  Further specifications follow parts    *)
(* of the repository on their own:                                          *)
(*   SpecCollect     src/src/data_collectors/base.py, the collector caches  *)
(*   SpecCreative    creative_collector.py, _generate_mock_metrics          *)
(*   SpecCompetitor  competitor_collector.py, _generate_mock_metrics        *)
(*   SpecEval        src/scripts/check_evaluation_thresholds.py             *)
(*   SpecRate        src/scripts/run_evaluation.py and                      *)
(*                   src/src/evaluation/evaluator.py, the pass rate         *)
(***************************************************************************)
EXTENDS Integers, Sequences, FiniteSets, TLC

(***************************************************************************)
(* Bounds of the model                                                     *)
(***************************************************************************)
\* Cap on the invocations of generate_recommendation explored in one run.
MaxRecCalls == 5
\* Cap on the collect calls explored on the shared collectors.
MaxCollects == 3
\* Caps on the result files of a results directory and on the cases of a file.
MaxFiles == 2
MaxCases == 3
\* Cap on the metric records handed to a pass-rate computation.
MaxRecords == 2
\* lines of a text handed to a parser on its own
MaxLines == 2

(***************************************************************************)
(* Program constants                                                       *)
(***************************************************************************)
\* Settings.max_iterations
max_iterations == 3
\* BaseCollector.__init__(cache_ttl=300), seconds
cache_ttl == 300
\* Settings.recommendation_timeout, in seconds
recommendation_timeout == 60

(***************************************************************************)
(* Values                                                                  *)
(***************************************************************************)
\* Python's None; every object of the model is a record with a kind field.
None == [kind |-> "None"]

CampaignIds == {"camp_1", "camp_2"}

\* The three coroutines handed to asyncio.gather, in argument order.
Collectors == <<"campaign_metrics", "creative_metrics", "competitor_signals">>
CollectorNames == {Collectors[i] : i \in 1..3}

Pending == [kind |-> "Pending"]

\* What a settled collector hands to gather: its record, or the exception it
\* raised (return_exceptions=True turns a raised exception into a result).
CollectorRecord(c, id) == [kind |-> c, campaign_id |-> id]
CollectorException(c) == [kind |-> "Exception", msg |-> "unavailable", from |-> c]
IsException(r) == r.kind = "Exception"

(***************************************************************************)
(* Text of the text-generation service.  A text is a sequence of lines; a  *)
(* line records what the parsers test of it:                               *)
(*   mentions  the lowercased needles that occur in the lowercased line    *)
(*   exact     the case-sensitive needles that occur in the line           *)
(*   colon     ':' occurs in the line                                      *)
(*   after     the stripped text after the first ':' (when colon)          *)
(*   stripped  the stripped line                                           *)
(*   bold      the line starts with '**'                                   *)
(***************************************************************************)
Line(m, e, c, a, s, b) ==
    [mentions |-> m, exact |-> e, colon |-> c, after |-> a, stripped |-> s, bold |-> b]

L_RootCause == Line({"root cause"}, {}, TRUE, "creative fatigue",
                    "**Root Cause**: creative fatigue", TRUE)
L_Plain == Line({}, {}, FALSE, "", "frequency is above seven", FALSE)
L_Reasoning == Line({"reasoning"}, {}, TRUE, "ads are stale",
                    "**Reasoning**: ads are stale", TRUE)
L_Workflow == Line({"creative refresh"}, {}, TRUE, "Creative Refresh",
                   "**Recommended Workflow**: Creative Refresh", TRUE)
L_SatYes == Line({"satisfactory: yes"}, {"Is Satisfactory: yes"}, TRUE, "yes",
                 "Is Satisfactory: yes", FALSE)
L_SatYesUpper == Line({"satisfactory: yes"}, {}, TRUE, "YES",
                      "IS SATISFACTORY: YES", FALSE)
\* the layout CRITIQUE_PROMPT asks for: the colon is inside the bold markers
L_SatYesBold == Line({}, {}, TRUE, "** yes", "**Is Satisfactory:** yes", TRUE)
L_SatNo == Line({}, {}, TRUE, "no", "Is Satisfactory: no", FALSE)
L_Critical == Line({"critical issues"}, {}, TRUE, "budget impact is not quantified",
                   "**Critical Issues**: budget impact is not quantified", TRUE)
L_Assessment == Line({"overall assessment"}, {}, TRUE, "needs work",
                     "**Overall Assessment**: needs work", TRUE)

\* lines that come close to what the extractors look for
L_RiskHigh == Line({"risk level: high"}, {}, TRUE, "high", "Risk Level: high", FALSE)
L_RiskMedium == Line({"risk: medium"}, {}, TRUE, "medium", "Risk: medium", FALSE)
\* the layout RECOMMENDATION_GENERATION_PROMPT asks for
L_RiskBold == Line({}, {}, TRUE, "** high, the budget is large",
                   "**Risk Level:** high, the budget is large", TRUE)
L_TimelineEmpty == Line({"timeline"}, {}, TRUE, "", "**Timeline**:", TRUE)
L_NoColon == Line({"reasoning"}, {}, FALSE, "", "the reasoning is unclear", FALSE)
L_TwoWorkflows == Line({"campaign pause", "bid adjustment"}, {}, FALSE, "",
                       "campaign pause rather than bid adjustment", FALSE)

ParseLines == {L_RootCause, L_Plain, L_Reasoning, L_Workflow, L_SatYes, L_SatYesUpper,
               L_SatYesBold, L_SatNo, L_Critical, L_Assessment, L_RiskHigh,
               L_RiskMedium, L_RiskBold, L_TimelineEmpty, L_NoColon, L_TwoWorkflows}

AnalysisTexts == {<<L_RootCause, L_Plain>>, <<L_Plain>>}
RecommendationTexts == {<<L_Workflow, L_Reasoning>>, <<L_Plain>>}
CritiqueTexts == {<<L_SatYes, L_Assessment>>, <<L_SatYesUpper>>,
                  <<L_SatYesBold, L_Critical>>,
                  <<L_SatNo, L_Critical, L_Assessment>>}

\* An llm.ainvoke call returns a response or raises.
LLMError == [kind |-> "Exception", msg |-> "llm call failed"]
LLMResponse(text) == [kind |-> "AIMessage", content |-> text]
LLMOutcomes(texts) == {LLMError} \cup {LLMResponse(t) : t \in texts}

(***************************************************************************)
(* Parsers of workflow.py                                                  *)
(***************************************************************************)
\* The loop of _extract_section from line i on; a joined string is modelled
\* as the sequence of the pieces that ' '.join glues together.
RECURSIVE extract_from(_, _, _, _)
extract_from(text, section, i, capture) ==
    IF i > Len(text) THEN <<>>
    ELSE LET line == text[i] IN
         IF section \in line.mentions /\ line.colon
            THEN <<line.after>> \o extract_from(text, section, i + 1, TRUE)
         ELSE IF capture /\ line.stripped # "" /\ ~line.bold
            THEN <<line.stripped>> \o extract_from(text, section, i + 1, capture)
         ELSE IF capture /\ line.bold
            THEN <<>>
         ELSE extract_from(text, section, i + 1, capture)

\* Mutant: no sentinel, the joined content is returned as it is.
extract_section_without_default(text, section) ==
    extract_from(text, section, 1, FALSE)

extract_section(text, section) ==
    LET content == extract_from(text, section, 1, FALSE)
    IN  IF content # <<>> THEN content ELSE <<"Not specified">>

\* needle in text.lower()
InLower(text, needle) == \E i \in 1..Len(text) : needle \in text[i].mentions
\* needle in text
InText(text, needle) == \E i \in 1..Len(text) : needle \in text[i].exact

\* WorkflowType, lowercased values in declaration order
WorkflowType == <<"creative refresh", "audience expansion", "bid adjustment",
                  "campaign pause", "budget reallocation", "continue monitoring">>

extract_workflow(text) ==
    LET hits == {i \in 1..Len(WorkflowType) : InLower(text, WorkflowType[i])}
    IN  IF hits # {}
           THEN WorkflowType[CHOOSE i \in hits : \A j \in hits : i <= j]
           ELSE "continue monitoring"

extract_risk_level(text) ==
    IF InLower(text, "risk level: high") \/ InLower(text, "risk: high") THEN "high"
    ELSE IF InLower(text, "risk level: medium") \/ InLower(text, "risk: medium") THEN "medium"
    ELSE "low"

parse_signal_analysis(text) ==
    [kind |-> "SignalAnalysis",
     key_signals |-> extract_section(text, "key signals"),
     signal_correlation |-> extract_section(text, "signal correlation"),
     root_cause |-> extract_section(text, "root cause"),
     supporting_evidence |-> extract_section(text, "supporting evidence"),
     alternate_hypotheses |-> extract_section(text, "alternate")]

parse_recommendation(text, analysis) ==
    [kind |-> "Recommendation",
     recommended_workflow |-> extract_workflow(text),
     reasoning |-> extract_section(text, "reasoning"),
     specific_actions |-> extract_section(text, "specific actions"),
     expected_impact |-> extract_section(text, "expected impact"),
     risk_level |-> extract_risk_level(text),
     timeline |-> extract_section(text, "timeline"),
     success_criteria |-> extract_section(text, "success criteria"),
     alternatives |-> <<>>,
     signal_analysis |-> analysis]

CritiqueResult(sat, critical, assessment) ==
    [kind |-> "CritiqueResult", is_satisfactory |-> sat,
     critical_issues |-> critical, overall_assessment |-> assessment]

\* Mutant: the critical issues are read from their section of the text.
parse_critique_reading_issues(text) ==
    CritiqueResult(InText(text, "Is Satisfactory: yes") \/ InLower(text, "satisfactory: yes"),
                   extract_from(text, "critical issues", 1, FALSE),
                   extract_section(text, "overall assessment"))

parse_critique(text) ==
    CritiqueResult(InText(text, "Is Satisfactory: yes") \/ InLower(text, "satisfactory: yes"),
                   <<>>,
                   extract_section(text, "overall assessment"))

\* Mutant: the except branch of _critique_node rejects the recommendation.
CritiqueFailedResult_rejecting ==
    CritiqueResult(FALSE, <<"Critique failed">>, <<"Critique failed">>)

\* The CritiqueResult the except branch of _critique_node puts in the state.
CritiqueFailedResult ==
    CritiqueResult(TRUE, <<>>, <<"Critique failed, accepting recommendation">>)

\* Truthiness of a Python list
Truthy(list) == list # <<>>

\* Mutant: any unsatisfactory critique regenerates, critical issues or not.
should_regenerate_any_unsatisfactory(critique_, iteration) ==
    IF iteration >= max_iterations THEN "finalize"
    ELSE IF critique_ = None \/ critique_.is_satisfactory THEN "finalize"
    ELSE "regenerate"

\* Mutant: critical issues regenerate whatever is_satisfactory says.
should_regenerate_ignoring_satisfaction(critique_, iteration) ==
    IF iteration >= max_iterations THEN "finalize"
    ELSE IF critique_ = None THEN "finalize"
    ELSE IF Truthy(critique_.critical_issues) THEN "regenerate"
    ELSE "finalize"

should_regenerate(critique_, iteration) ==
    IF iteration >= max_iterations THEN "finalize"
    ELSE IF critique_ = None \/ critique_.is_satisfactory THEN "finalize"
    ELSE IF Truthy(critique_.critical_issues) THEN "regenerate"
    ELSE "finalize"

(***************************************************************************)
(* ContextBuilder                                                          *)
(***************************************************************************)
Raised(msg) == [kind |-> "Exception", msg |-> msg]

\* Mutant: the result of the last collector is not checked.
build_context_unchecked_competitor(id, g) ==
    IF IsException(g["campaign_metrics"])
       THEN Raised(<<"Failed to collect campaign metrics", g["campaign_metrics"].msg>>)
    ELSE IF IsException(g["creative_metrics"])
       THEN Raised(<<"Failed to collect creative metrics", g["creative_metrics"].msg>>)
    ELSE [kind |-> "CampaignContext",
          campaign_id |-> id,
          campaign_metrics |-> g["campaign_metrics"],
          creative_metrics |-> g["creative_metrics"],
          competitor_signals |-> g["competitor_signals"]]

\* Mutant: the three results are checked from the last to the first.
build_context_competitor_first(id, g) ==
    IF IsException(g["competitor_signals"])
       THEN Raised(<<"Failed to collect competitor signals", g["competitor_signals"].msg>>)
    ELSE IF IsException(g["creative_metrics"])
       THEN Raised(<<"Failed to collect creative metrics", g["creative_metrics"].msg>>)
    ELSE IF IsException(g["campaign_metrics"])
       THEN Raised(<<"Failed to collect campaign metrics", g["campaign_metrics"].msg>>)
    ELSE [kind |-> "CampaignContext",
          campaign_id |-> id,
          campaign_metrics |-> g["campaign_metrics"],
          creative_metrics |-> g["creative_metrics"],
          competitor_signals |-> g["competitor_signals"]]

\* build_context after the await of asyncio.gather: g maps each collector to
\* what gather returned for it.  The value is the CampaignContext returned or
\* the exception raised.
build_context(id, g) ==
    IF IsException(g["campaign_metrics"])
       THEN Raised(<<"Failed to collect campaign metrics", g["campaign_metrics"].msg>>)
    ELSE IF IsException(g["creative_metrics"])
       THEN Raised(<<"Failed to collect creative metrics", g["creative_metrics"].msg>>)
    ELSE IF IsException(g["competitor_signals"])
       THEN Raised(<<"Failed to collect competitor signals", g["competitor_signals"].msg>>)
    ELSE [kind |-> "CampaignContext",
          campaign_id |-> id,
          campaign_metrics |-> g["campaign_metrics"],
          creative_metrics |-> g["creative_metrics"],
          competitor_signals |-> g["competitor_signals"]]

\* The brief, as its four sections, each rendered from one sub-record.
format_context_for_llm(ctx) ==
    << <<"Campaign Overview", ctx.campaign_metrics>>,
       <<"Performance Metrics", ctx.campaign_metrics>>,
       <<"Creative Performance", ctx.creative_metrics>>,
       <<"Competitive Landscape", ctx.competitor_signals>> >>

(***************************************************************************)
(* State                                                                   *)
(***************************************************************************)
VARIABLES
    pc,                   \* the node the compiled graph runs next
    critic,               \* what turns critique text into a CritiqueResult
    gathered,             \* asyncio.gather: collector -> Pending / result
    campaign_id, context, context_text,
    messages,             \* the blocks added to the messages channel, see MessagesValue
    signal_analysis, signal_analysis_text,
    recommendation, recommendation_text,
    critique, iteration_count, errors, metadata,   \* AgentState
    hist,                 \* record of what the run has done so far
    elapsed,              \* seconds since metadata["started_at"]
    now, ticked,          \* datetime.now() in seconds; it moved since the last call began
    collects,             \* collect calls begun so far
    cache,                \* collector -> its _cache dict: key -> (data, timestamp)
    calls,                \* coroutine -> its collect call: position and locals
    creative,             \* last CreativeMetricsCollector._generate_mock_metrics call
    competitor,           \* last CompetitorSignalsCollector._generate_mock_metrics call
    competitor_prev,      \*   ... and the one before it
    gate,                 \* check_evaluation_thresholds.main: the step it is at
    args,                 \* its parsed arguments
    directory,            \* the files of --results-dir
    results, aggregated,  \* locals of main
    verdict,              \* what check_thresholds returned
    exit_code, printed,   \* sys.exit status and the status lines printed
    records,              \* metric records of one evaluation run
    run_aggregated,       \* run_evaluation._aggregate_results on them
    evaluator_aggregated, \* MarketingAgentEvaluator._aggregate_results on them
    llm_text,             \* a text handed to one of the _parse_ methods
    parsed                \* what the method returned

state == <<campaign_id, context, context_text, messages, signal_analysis,
           signal_analysis_text, recommendation, recommendation_text,
           critique, iteration_count, errors, metadata>>
pipeVars == <<pc, critic, gathered, state, hist, elapsed>>
collectVars == <<now, ticked, collects, cache, calls>>
\* what a run of analyze_campaign leaves alone
mockVars == <<creative, competitor, competitor_prev>>
evalVars == <<gate, args, directory, results, aggregated, verdict, exit_code, printed>>
rateVars == <<records, run_aggregated, evaluator_aggregated>>
parseVars == <<llm_text, parsed>>
aux == <<collectVars, mockVars, evalVars, rateVars, parseVars>>
notCollect == <<pipeVars, mockVars, evalVars, rateVars, parseVars>>
notMock == <<pipeVars, collectVars, evalVars, rateVars, parseVars>>
notEval == <<pipeVars, collectVars, mockVars, rateVars, parseVars>>
notRate == <<pipeVars, collectVars, mockVars, evalVars, parseVars>>
notParse == <<pipeVars, collectVars, mockVars, evalVars, rateVars>>
vars == <<pipeVars, aux>>

\* dict with key k set to v
DictSet(d, k, v) == [x \in DOMAIN d \cup {k} |-> IF x = k THEN v ELSE d[x]]

\* The three messages an invocation of a node appends after a response.
NodeMessages(node) ==
    << [type |-> "system", node |-> node],
       [type |-> "human", node |-> node],
       [type |-> "ai", node |-> node] >>

\* The CritiqueResult values a critique stage can be made to return.
StubCritiques ==
    {CritiqueResult(sat, issues, <<"stub">>) :
        sat \in BOOLEAN, issues \in {<<>>, <<"CRITICAL: no budget impact">>}}

HistInit ==
    [collect_failed |-> FALSE,   \* build_context raised
     analyze |-> 0,              \* invocations of analyze_signals
     analyze_failed |-> 0,       \*   ... that took the except branch
     generate |-> 0,             \* invocations of generate_recommendation
     generate_failed |-> 0,
     critique |-> 0,             \* invocations of critique
     critique_failed |-> 0,
     last_critique_failed |-> FALSE,
     llm |-> 0,                  \* llm.ainvoke calls started
     regenerate |-> 0,           \* critique -> generate_recommendation edges taken
     route |-> "none"]           \* last value of _should_regenerate

\* initial_state of analyze_campaign
InitState(id) ==
    /\ campaign_id = id
    /\ context = None
    /\ context_text = <<>>
    /\ messages = <<>>
    /\ signal_analysis = None
    /\ signal_analysis_text = <<>>
    /\ recommendation = None
    /\ recommendation_text = <<>>
    /\ critique = None
    /\ iteration_count = 0
    /\ errors = <<>>
    /\ metadata = [k \in {"started_at"} |-> 0]

\* ContextBuilder.__init__: three collectors with empty caches; no collect
\* call has been made.
NoCall ==
    [pc |-> "idle", c |-> None, id |-> None, kwargs |-> <<>>, key |-> <<>>,
     looked |-> None, at |-> 0, hit |-> FALSE, result |-> None]

Runs == {1, 2}

\* The collectors whose caches are followed: one whose key carries a keyword
\* argument and one whose key carries none (CompetitorSignalsCollector.collect
\* is CreativeMetricsCollector.collect line for line).
CachedCollectors == {"campaign_metrics", "creative_metrics"}

CollectInit ==
    /\ now = 0
    /\ ticked = FALSE
    /\ collects = 0
    /\ cache = [c \in CachedCollectors |-> <<>>]
    /\ calls = [r \in Runs |-> NoCall]

\* No record has been generated.
MockInit ==
    /\ creative = None
    /\ competitor = None
    /\ competitor_prev = None

\* argparse defaults of check_evaluation_thresholds.py, in thousandths
DefaultArgs ==
    [min_pass_rate |-> 850, min_relevance |-> 700, min_accuracy |-> 700,
     min_completeness |-> 800, min_coherence |-> 700, min_safety |-> 1000]

\* The threshold gate has not been started.
EvalIdle ==
    /\ gate = "idle"
    /\ args = DefaultArgs
    /\ directory = <<>>
    /\ results = <<>>
    /\ aggregated = <<>>
    /\ verdict = None
    /\ exit_code = None
    /\ printed = <<>>

\* No evaluation has been run.
RateIdle ==
    /\ records = <<>>
    /\ run_aggregated = None
    /\ evaluator_aggregated = None

\* No parser call is under way.
ParseIdle ==
    /\ llm_text = <<>>
    /\ parsed = None

AuxInit == CollectInit /\ MockInit /\ EvalIdle /\ RateIdle /\ ParseIdle

\* No analyze_campaign call is in progress.
PipelineIdle ==
    /\ pc = "idle"
    /\ critic = "parse_critique"
    /\ gathered = [c \in CollectorNames |-> Pending]
    /\ InitState("camp_1")
    /\ hist = HistInit
    /\ elapsed = 0

Init ==
    /\ pc = "collect_context"
    /\ critic = "parse_critique"
    /\ gathered = [c \in CollectorNames |-> Pending]
    /\ \E id \in CampaignIds : InitState(id)
    /\ hist = HistInit
    /\ elapsed = 0
    /\ AuxInit

\* The same run with the critique parser replaced by a stub that may return
\* any CritiqueResult.
InitStub ==
    /\ pc = "collect_context"
    /\ critic = "stub"
    /\ gathered = [c \in CollectorNames |-> Pending]
    /\ \E id \in CampaignIds : InitState(id)
    /\ hist = HistInit
    /\ elapsed = 0
    /\ AuxInit

(***************************************************************************)
(* The compiled graph                                                      *)
(***************************************************************************)
\* Mutant: the run ends after analyze_signals.
Edge_stop_after_analysis(node) ==
    CASE node = "collect_context" -> "analyze_signals"
      [] node = "analyze_signals" -> "done"
      [] node = "generate_recommendation" -> "critique"
      [] node = "finalize" -> "done"

\* add_edge: the node that follows a node unconditionally
Edge(node) ==
    CASE node = "collect_context" -> "analyze_signals"
      [] node = "analyze_signals" -> "generate_recommendation"
      [] node = "generate_recommendation" -> "critique"
      [] node = "finalize" -> "done"

\* Mutant: the loop goes back to analyze_signals.
ConditionalEdge_back_to_analysis(route) ==
    IF route = "regenerate" THEN "analyze_signals" ELSE "finalize"

\* add_conditional_edges("critique", _should_regenerate, {...})
ConditionalEdge(route) ==
    IF route = "regenerate" THEN "generate_recommendation" ELSE "finalize"

\* The channel of messages is declared with operator.add: what a node returns
\* under "messages" is added to the value the channel holds.
MessagesReducer(held, returned) == held \o returned

\* Every node returns state["messages"] + new under "messages" (new is empty
\* where the node only spreads **state).  The variable messages holds the
\* sequence of these new blocks, one per node run; MessagesValue is the list
\* the channel holds after them.
NodeReturns(log, new) == Append(log, new)

RECURSIVE MessagesValue(_)
MessagesValue(log) ==
    IF log = <<>> THEN <<>>
    ELSE LET held == MessagesValue(SubSeq(log, 1, Len(log) - 1))
         IN  MessagesReducer(held, held \o log[Len(log)])

\* Mutant: the except branch of _generate_recommendation_node drops the error.
GenerateErrors_dropped(errs, e) == errs

\* Mutant: the except branch of _analyze_signals_node starts a new list.
AnalyzeErrors_fresh(errs, e) == <<<<"Signal analysis failed", e.msg>>>>

\* Mutant: a recommendation failure is recorded only the first time.
GenerateErrors_once(errs, e) ==
    IF \E i \in 1..Len(errs) : errs[i][1] = "Recommendation generation failed"
       THEN errs
       ELSE Append(errs, <<"Recommendation generation failed", e.msg>>)

\* The errors lists the except branches return
CollectErrors(errs, e) == Append(errs, <<"Context collection failed", e.msg>>)
AnalyzeErrors(errs, e) == Append(errs, <<"Signal analysis failed", e.msg>>)
GenerateErrors(errs, e) == Append(errs, <<"Recommendation generation failed", e.msg>>)

\* Mutant: a stage whose llm.ainvoke raised makes the call a second time.
Bump_retrying(h, fields) ==
    [f \in DOMAIN h |->
        IF f = "llm" /\ fields \cap {"analyze_failed", "generate_failed",
                                      "critique_failed"} # {}
           THEN h[f] + 2
        ELSE IF f \in fields THEN h[f] + 1 ELSE h[f]]

\* The counters of hist that a node run advances
Bump(h, fields) == [f \in DOMAIN h |-> IF f \in fields THEN h[f] + 1 ELSE h[f]]

\* Mutant: gather without return_exceptions=True, which hands the first
\* exception to the caller while the other coroutines are still running.
GatherDone_first_exception(g) ==
    \/ \A c \in CollectorNames : g[c] # Pending
    \/ \E c \in CollectorNames : IsException(g[c])

\* await asyncio.gather(..., return_exceptions=True) resumes build_context
\* once every coroutine has returned or raised.
GatherDone(g) == \A c \in CollectorNames : g[c] # Pending

(***************************************************************************)
(* One collector coroutine of the gather settles: it returns its record or *)
(* raises.                                                                 *)
(***************************************************************************)
CollectorSettle(c) ==
    /\ UNCHANGED aux
    /\ pc = "collect_context"
    /\ gathered[c] = Pending
    /\ \E r \in {CollectorRecord(c, campaign_id), CollectorException(c)} :
          gathered' = [gathered EXCEPT ![c] = r]
    /\ UNCHANGED <<pc, critic, state, hist, elapsed>>

(***************************************************************************)
(* _collect_context_node, from the return of gather on                     *)
(***************************************************************************)
CollectContextNode ==
    /\ UNCHANGED aux
    /\ pc = "collect_context"
    /\ GatherDone(gathered)
    /\ LET r == build_context(campaign_id, gathered) IN
       IF IsException(r)
          THEN /\ errors' = CollectErrors(errors, r)
               /\ hist' = [hist EXCEPT !.collect_failed = TRUE]
               /\ UNCHANGED <<context, context_text, metadata>>
          ELSE /\ context' = r
               /\ context_text' = format_context_for_llm(r)
               /\ metadata' = DictSet(metadata, "context_collection_ms", 0)
               /\ UNCHANGED <<errors, hist>>
    /\ messages' = NodeReturns(messages, <<>>)
    /\ pc' = Edge("collect_context")
    /\ UNCHANGED <<elapsed, critic, gathered, campaign_id, signal_analysis, signal_analysis_text,
                   recommendation, recommendation_text, critique, iteration_count>>

(***************************************************************************)
(* _analyze_signals_node                                                   *)
(***************************************************************************)
AnalyzeSignalsNode ==
    /\ UNCHANGED aux
    /\ pc = "analyze_signals"
    /\ \E out \in LLMOutcomes(AnalysisTexts) :
          IF IsException(out)
             THEN /\ errors' = AnalyzeErrors(errors, out)
                  /\ messages' = NodeReturns(messages, <<>>)
                  /\ hist' = Bump(hist, {"analyze", "llm", "analyze_failed"})
                  /\ UNCHANGED <<signal_analysis, signal_analysis_text>>
             ELSE /\ signal_analysis' = parse_signal_analysis(out.content)
                  /\ signal_analysis_text' = out.content
                  /\ messages' = NodeReturns(messages, NodeMessages("analyze_signals"))
                  /\ hist' = Bump(hist, {"analyze", "llm"})
                  /\ UNCHANGED errors
    /\ pc' = Edge("analyze_signals")
    /\ UNCHANGED <<elapsed, critic, gathered, campaign_id, context, context_text,
                   recommendation, recommendation_text, critique, iteration_count,
                   metadata>>

(***************************************************************************)
(* _generate_recommendation_node                                           *)
(***************************************************************************)
GenerateRecommendationNode ==
    /\ UNCHANGED aux
    /\ pc = "generate_recommendation"
    /\ hist.generate < MaxRecCalls
    /\ \E out \in LLMOutcomes(RecommendationTexts) :
          IF IsException(out)
             THEN /\ errors' = GenerateErrors(errors, out)
                  /\ messages' = NodeReturns(messages, <<>>)
                  /\ hist' = Bump(hist, {"generate", "llm", "generate_failed"})
                  /\ UNCHANGED <<recommendation, recommendation_text>>
             ELSE /\ recommendation' =
                         parse_recommendation(out.content, signal_analysis_text)
                  /\ recommendation_text' = out.content
                  /\ messages' = NodeReturns(messages, NodeMessages("generate_recommendation"))
                  /\ hist' = Bump(hist, {"generate", "llm"})
                  /\ UNCHANGED errors
    /\ pc' = Edge("generate_recommendation")
    /\ UNCHANGED <<elapsed, critic, gathered, campaign_id, context, context_text,
                   signal_analysis, signal_analysis_text, critique, iteration_count,
                   metadata>>

(***************************************************************************)
(* _critique_node, followed by the conditional edge _should_regenerate     *)
(***************************************************************************)
CritiqueNode ==
    /\ UNCHANGED aux
    /\ pc = "critique"
    /\ \E out \in LLMOutcomes(CritiqueTexts), stubbed \in StubCritiques :
          LET failed == IsException(out)
              result == IF failed THEN CritiqueFailedResult
                        ELSE IF critic = "stub" THEN stubbed
                        ELSE parse_critique(out.content)
              route == should_regenerate(result, iteration_count)
          IN  /\ critique' = result
              /\ messages' = IF failed
                                THEN NodeReturns(messages, <<>>)
                                ELSE NodeReturns(messages, NodeMessages("critique"))
              /\ hist' = [Bump(hist, {"critique", "llm"}
                                     \cup (IF failed THEN {"critique_failed"} ELSE {})
                                     \cup (IF route = "regenerate" THEN {"regenerate"} ELSE {}))
                            EXCEPT !.last_critique_failed = failed, !.route = route]
              /\ pc' = ConditionalEdge(route)
    /\ UNCHANGED <<elapsed, critic, gathered, campaign_id, context, context_text,
                   signal_analysis, signal_analysis_text, recommendation,
                   recommendation_text, iteration_count, errors, metadata>>

(***************************************************************************)
(* _finalize_node, then END                                                *)
(***************************************************************************)
FinalizeNode ==
    /\ UNCHANGED aux
    /\ pc = "finalize"
    /\ metadata' = DictSet(DictSet(metadata, "completed_at", 0),
                           "total_iterations", iteration_count)
    /\ messages' = NodeReturns(messages, <<>>)
    /\ pc' = Edge("finalize")
    /\ UNCHANGED <<elapsed, critic, gathered, campaign_id, context, context_text,
                   signal_analysis, signal_analysis_text, recommendation,
                   recommendation_text, critique, iteration_count, errors, hist>>

\* Mutant: a run that recorded errors returns no recommendation.
Result_nothing_after_errors ==
    [campaign_id |-> campaign_id,
     recommendation |-> IF errors # <<>> THEN None ELSE recommendation,
     signal_analysis |-> signal_analysis,
     context |-> context,
     critique |-> critique,
     metadata |-> metadata,
     errors |-> errors]

\* What analyze_campaign returns once the graph has reached END.
Result ==
    [campaign_id |-> campaign_id,
     recommendation |-> recommendation,
     signal_analysis |-> signal_analysis,
     context |-> context,
     critique |-> critique,
     metadata |-> metadata,
     errors |-> errors]

Next ==
    \/ \E c \in CollectorNames : CollectorSettle(c)
    \/ CollectContextNode
    \/ AnalyzeSignalsNode
    \/ GenerateRecommendationNode
    \/ CritiqueNode
    \/ FinalizeNode

Spec == Init /\ [][Next]_vars

SpecStub == InitStub /\ [][Next]_vars

(***************************************************************************)
(* Wall-clock time passes while analyze_campaign awaits workflow.ainvoke:  *)
(* the collectors and llm.ainvoke take time.  Nothing in analyze_campaign  *)
(* or in the nodes reads the clock against settings.recommendation_timeout *)
(* (the name occurs in settings.py only), so the passing of time changes   *)
(* nothing but the clock.  The clock stops one step past the budget.       *)
(***************************************************************************)
ElapseSteps == {30, 45}

Elapse ==
    /\ UNCHANGED aux
    /\ pc \notin {"idle", "done"}
    /\ elapsed <= recommendation_timeout
    /\ \E d \in ElapseSteps : elapsed' = elapsed + d
    /\ UNCHANGED <<pc, critic, gathered, state, hist>>

NextTimed == Next \/ Elapse

SpecTimed == Init /\ [][NextTimed]_vars

(***************************************************************************)
(* The collector caches (src/src/data_collectors/base.py), shared by the   *)
(* runs that go through the API's module-level agent                       *)
(***************************************************************************)
\* self.__class__.__name__
ClassName(c) ==
    CASE c = "campaign_metrics" -> "CampaignMetricsCollector"
      [] c = "creative_metrics" -> "CreativeMetricsCollector"
      [] c = "competitor_signals" -> "CompetitorSignalsCollector"

\* The analysis windows asked for; build_context's default is 7.
Days == {7, 30}

\* f"{v}" of a days value
str(v) == CASE v = 7 -> "7" [] v = 30 -> "30"

\* The keyword arguments each collect passes to _get_cache_key, as the
\* sorted list of items.
KwargsOf(c) ==
    IF c = "campaign_metrics" THEN {<< <<"days", d>> >> : d \in Days} ELSE {<<>>}

\* "_".join(f"{k}={v}" for k, v in sorted(kwargs.items())), as a token list
RECURSIVE JoinParams(_)
JoinParams(items) ==
    IF items = <<>> THEN <<>>
    ELSE <<items[1][1], "=", str(items[1][2])>>
         \o (IF Len(items) = 1 THEN <<>> ELSE <<"_">> \o JoinParams(Tail(items)))

\* _get_cache_key: f"{class name}:{campaign_id}:{params}", as a token list
get_cache_key(c, id, kwargs) == <<ClassName(c), ":", id, ":">> \o JoinParams(kwargs)

\* Mutant: an entry is served up to and including the age cache_ttl.
get_from_cache_inclusive(dict, cache_key, t) ==
    IF cache_key \in DOMAIN dict /\ t - dict[cache_key].timestamp <= cache_ttl
    THEN dict[cache_key].data
    ELSE None

\* _get_from_cache with datetime.now() = t
get_from_cache(dict, cache_key, t) ==
    IF cache_key \in DOMAIN dict
    THEN IF t - dict[cache_key].timestamp < cache_ttl
         THEN dict[cache_key].data
         ELSE None
    ELSE None

\* _set_cache with datetime.now() = t
set_cache(dict, cache_key, data, t) ==
    DictSet(dict, cache_key, [data |-> data, timestamp |-> t])

\* _generate_mock_metrics with datetime.now() = t: a complete record for the
\* campaign asked for.  kwargs is what the record keeps of the arguments
\* (days_running = days), collected_at its datetime.now() (period_end of a
\* CampaignMetrics); the drawn figures are left out.
generate_mock_metrics(c, id, kwargs, t) ==
    [kind |-> c, campaign_id |-> id, kwargs |-> kwargs, collected_at |-> t]

\* How far datetime.now() moves between two steps
TickSteps == {1, cache_ttl - 1}

\* Mutant: a collect body that awaits between its cache lookup and its store,
\* so that the event loop can start another collect in between.
MayStart_preemptive(cs, r) == TRUE

\* The body of collect holds no await: once the event loop has entered it, no
\* other coroutine runs until it has returned.
MayStart(cs, r) == \A q \in Runs \ {r} : cs[q].pc # "miss"

\* Time passes between two calls: the body of collect takes no measurable
\* time, two advances with no call between them are one advance to the
\* program, and after the last call explored the clock is no longer read.
Tick ==
    /\ ~ticked
    /\ collects < MaxCollects
    /\ \A r \in Runs : calls[r].pc # "miss"
    /\ \E d \in TickSteps : now' = now + d
    /\ ticked' = TRUE
    /\ UNCHANGED <<notCollect, collects, cache, calls>>

\* collect, from its entry to the cache lookup and the return of a hit
CollectLookup(r, c, id, kwargs) ==
    /\ calls[r].pc # "miss"
    /\ collects < MaxCollects
    /\ collects' = collects + 1
    /\ ticked' = FALSE
    /\ MayStart(calls, r)
    /\ LET cache_key == get_cache_key(c, id, kwargs)
           looked == IF cache_key \in DOMAIN cache[c] THEN cache[c][cache_key] ELSE None
           cached == get_from_cache(cache[c], cache_key, now)
           call == [pc |-> "miss", c |-> c, id |-> id, kwargs |-> kwargs,
                    key |-> cache_key, looked |-> looked, at |-> now,
                    hit |-> FALSE, result |-> None]
       IN  IF cached # None
           THEN calls' = [calls EXCEPT ![r] =
                            [call EXCEPT !.pc = "done", !.hit = TRUE, !.result = cached]]
           ELSE calls' = [calls EXCEPT ![r] = call]
    /\ UNCHANGED <<notCollect, now, cache>>

\* collect after a miss: generate, store, return
CollectStore(r) ==
    /\ calls[r].pc = "miss"
    /\ LET call == calls[r]
             metrics == generate_mock_metrics(call.c, call.id, call.kwargs, now)
         IN  /\ cache' = [cache EXCEPT ![call.c] = set_cache(@, call.key, metrics, now)]
             /\ calls' = [calls EXCEPT ![r] = [call EXCEPT !.pc = "done", !.result = metrics]]
    /\ UNCHANGED <<notCollect, now, ticked, collects>>

NextCollect ==
    \/ Tick
    \/ \E r \in Runs, c \in CachedCollectors, id \in CampaignIds :
          \E kwargs \in KwargsOf(c) : CollectLookup(r, c, id, kwargs)
    \/ \E r \in Runs : CollectStore(r)

InitCollect == PipelineIdle /\ AuxInit

SpecCollect == InitCollect /\ [][NextCollect]_vars

(***************************************************************************)
(* The mock generators of the creative and the competitor collector        *)
(***************************************************************************)
\* Draws of random.randint(5, 45)
AgeDraws == {5, 30, 31, 45}

\* Draws of random.uniform(2.5, 8.0), in hundredths
FrequencyDraws == {250, 596, 600, 604, 606, 800}

\* CreativeTrend
CreativeTrends == {"improving", "stable", "declining"}

\* round(x, 1) of a value in hundredths, in tenths: to the nearest tenth, a
\* decimal tie to the even one
round1(h) ==
    LET q == h \div 10
        r == h % 10
    IN  IF r < 5 THEN q
        ELSE IF r > 5 THEN q + 1
        ELSE IF q % 2 = 0 THEN q ELSE q + 1

\* CreativeMetricsCollector._generate_mock_metrics with the draws given:
\* fatigue is decided on the drawn frequency, the record keeps the rounded one
creative_mock_metrics(id, avg_age, frequency, ctr_trend) ==
    LET fatigue_detected ==
            \/ avg_age > 30
            \/ frequency > 600
            \/ ctr_trend = "declining"
    IN  [kind |-> "creative_metrics",
         campaign_id |-> id,
         avg_creative_age_days |-> avg_age,
         ctr_trend |-> ctr_trend,
         frequency |-> round1(frequency),          \* tenths
         fatigue_detected |-> fatigue_detected,
         refresh_recommended |-> fatigue_detected]

\* Draws of random.uniform(30, 95), random.uniform(-20, 60) and
\* random.uniform(-15, 40)
AuctionDraws == {30, 50, 75, 95}
MarketDraws == {-20, 0, 60}
BidDraws == {-15, 0, 40}

Abs(x) == IF x < 0 THEN -x ELSE x
Min(x, y) == IF x < y THEN x ELSE y

\* Mutant: the auction term falls as the auction score rises.
pressure_score_inverted_auction(auction_score, market_activity_change, bid_change) ==
    8 * (100 - auction_score)
    + 12 * Min(Abs(market_activity_change), 50)
    + 15 * Min(Abs(bid_change), 40)

\* pressure_score, times 20:
\*   auction/100*40 + min(|market|, 50)/50*30 + min(|bid|, 40)/40*30
pressure_score(auction_score, market_activity_change, bid_change) ==
    8 * auction_score
    + 12 * Min(Abs(market_activity_change), 50)
    + 15 * Min(Abs(bid_change), 40)

\* if pressure_score > 70 ... elif pressure_score > 40 ... else
pressure_class(score) ==
    IF score > 70 * 20 THEN "high"
    ELSE IF score > 40 * 20 THEN "medium"
    ELSE "low"

\* CompetitorSignalsCollector._generate_mock_metrics with the draws given;
\* pressure_score is the local the class is decided on
competitor_mock_metrics(id, auction_score, market_activity_change, bid_change) ==
    LET score == pressure_score(auction_score, market_activity_change, bid_change)
    IN  [kind |-> "competitor_signals",
         campaign_id |-> id,
         auction_competition_score |-> auction_score,
         market_activity_change_pct |-> market_activity_change,
         avg_competitor_bid_change_pct |-> bid_change,
         competitive_pressure |-> pressure_class(score),
         pressure_score |-> score]

CreativeGenerate ==
    /\ \E id \in CampaignIds, avg_age \in AgeDraws, frequency \in FrequencyDraws,
          ctr_trend \in CreativeTrends :
          creative' = [drawn_frequency |-> frequency,
                       record |-> creative_mock_metrics(id, avg_age, frequency, ctr_trend)]
    /\ UNCHANGED <<notMock, competitor, competitor_prev>>

CompetitorGenerate ==
    /\ \E auction_score \in AuctionDraws, market_activity_change \in MarketDraws,
          bid_change \in BidDraws :
          competitor' = competitor_mock_metrics("camp_1", auction_score,
                                                market_activity_change, bid_change)
    /\ competitor_prev' = competitor
    /\ UNCHANGED <<notMock, creative>>

InitMock == PipelineIdle /\ AuxInit

\* The creative collector generates record after record.
SpecCreative == InitMock /\ [][CreativeGenerate]_vars

\* The competitor collector generates record after record.
SpecCompetitor == InitMock /\ [][CompetitorGenerate]_vars

(***************************************************************************)
(* Evaluation: the pass rule of a case (src/scripts/run_evaluation.py,     *)
(* src/src/evaluation/evaluator.py) and the threshold gate                 *)
(* (src/scripts/check_evaluation_thresholds.py).  Scores, means and rates  *)
(* are in thousandths; a quotient is kept as the fraction num / den        *)
(* with the side (ulps) on which the double the program holds lies.        *)
(***************************************************************************)
MetricKeys ==
    <<"relevance_score", "accuracy_score", "completeness_score",
      "coherence_score", "safety_score">>

\* all([... >= 0.7, ... >= 0.7, ... >= 0.8, ... >= 0.7, ... >= 1.0])
CaseMinimum ==
    [relevance_score |-> 700, accuracy_score |-> 700, completeness_score |-> 800,
     coherence_score |-> 700, safety_score |-> 1000]

\* EvaluationMetrics.to_dict() values explored: every score at its minimum,
\* every score well above, and one score 0.001 under its minimum
AtMinimum == CaseMinimum
High ==
    [relevance_score |-> 900, accuracy_score |-> 900, completeness_score |-> 900,
     coherence_score |-> 900, safety_score |-> 1000]
Lowered(k) == [AtMinimum EXCEPT ![k] = @ - 1]
MetricDicts == {AtMinimum, High} \cup {Lowered(MetricKeys[i]) : i \in 1..5}

SeqsUpTo(S, n) == UNION {[1..k -> S] : k \in 0..n}

RECURSIVE SumSeq(_)
SumSeq(q) == IF q = <<>> THEN 0 ELSE q[1] + SumSeq(Tail(q))

\* d.get(k, default)
Get(d, k, default) == IF k \in DOMAIN d THEN d[k] ELSE default

\* A double: the one nearest to num / den when ulps = 0, a neighbour below
\* or above it when ulps = -1 or 1.
Float(n, d, ulps) == [num |-> n, den |-> d, ulps |-> ulps]
Fraction(n, d) == Float(n, d, 0)
Zero == Fraction(0, 1)

\* sum([v] * n) / n in binary64 arithmetic, against v itself, for the scores
\* v (in thousandths) and the lengths n <= 12 that occur
MeanOfEqual(v, n) ==
    CASE v = 700 /\ n = 3 -> -1
      [] v = 700 /\ n \in 6..12 -> 1
      [] v = 800 /\ n = 3 -> 1
      [] v = 800 /\ n \in 6..12 -> -1
      [] v = 799 /\ n \in 7..11 -> 1
      [] v = 900 /\ n \in 7..12 -> 1
      [] v = 999 /\ n \in 7..8 -> -1
      [] v = 999 /\ n \in 11..12 -> 1
      [] OTHER -> 0

\* sum(values) / len(values).  Where the values differ, the quotient is at
\* least 1/12000 away from every threshold and the rounding of the sum cannot
\* change a comparison.
float_mean(values) ==
    Float(SumSeq(values), Len(values),
          IF \A i \in 1..Len(values) : values[i] = values[1]
          THEN MeanOfEqual(values[1], Len(values))
          ELSE 0)

\* the "passed" entry run_evaluation computes for a test case
run_evaluation_passed(metrics) ==
    /\ metrics["relevance_score"] >= 700
    /\ metrics["accuracy_score"] >= 700
    /\ metrics["completeness_score"] >= 800
    /\ metrics["coherence_score"] >= 700
    /\ metrics["safety_score"] >= 1000

\* results.append({... "metrics": metrics.to_dict(), "passed": all([...])})
TestResult(metrics) == [metrics |-> metrics, passed |-> run_evaluation_passed(metrics)]

\* run_evaluation._aggregate_results: pass rate over the "passed" entries
run_evaluation_aggregate(rs) ==
    IF rs = <<>> THEN <<>>
    ELSE LET passed == Len(SelectSeq(rs, LAMBDA r : r.passed))
         IN  [k \in {"total_cases", "pass_rate", "passed_count", "failed_count"} |->
                CASE k = "total_cases" -> Len(rs)
                  [] k = "pass_rate" -> Fraction(passed * 1000, Len(rs))
                  [] k = "passed_count" -> passed
                  [] k = "failed_count" -> Len(rs) - passed]

\* MarketingAgentEvaluator._aggregate_results: pass rate over the records
\* whose five scores are all >= 0.7
evaluator_aggregate(rs) ==
    IF rs = <<>> THEN <<>>
    ELSE LET passing ==
               Len(SelectSeq(rs, LAMBDA r :
                     \A i \in 1..5 : Get(r.metrics, MetricKeys[i], 0) >= 700))
         IN  [k \in {"total_cases", "pass_rate"} |->
                CASE k = "total_cases" -> Len(rs)
                  [] k = "pass_rate" -> Fraction(passing * 1000, Len(rs))]

\* A file of --results-dir: one that json.load rejects, or what
\* run_evaluation dumped for a dataset whose cases all scored alike
Unreadable == [kind |-> "unreadable"]
ResultFile(cases) == [kind |-> "json", dataset |-> "golden", results |-> cases]

ResultFiles ==
    {Unreadable}
    \cup {ResultFile([i \in 1..k |-> TestResult(m)]) :
            m \in MetricDicts, k \in 0..MaxCases}

Directories == SeqsUpTo(ResultFiles, MaxFiles)

\* The command lines explored: the defaults, and --min-pass-rate 0.5 and 0
Configs ==
    {[DefaultArgs EXCEPT !.min_pass_rate = r] : r \in {850, 500, 0}}

\* load_results: the files that load, in glob order
load_results(dir) == SelectSeq(dir, LAMBDA f : f.kind = "json")

\* all_cases of aggregate_results
RECURSIVE all_cases_of(_)
all_cases_of(rs) ==
    IF rs = <<>> THEN <<>>
    ELSE [i \in 1..Len(rs[1].results) |->
            [dataset |-> rs[1].dataset,
             metrics |-> rs[1].results[i].metrics,
             passed |-> rs[1].results[i].passed]]
         \o all_cases_of(Tail(rs))

AvgKey ==
    [relevance_score |-> "avg_relevance_score", accuracy_score |-> "avg_accuracy_score",
     completeness_score |-> "avg_completeness_score",
     coherence_score |-> "avg_coherence_score", safety_score |-> "avg_safety_score"]

\* values of one metric key over the cases that have it
ValuesOf(all_cases, key) ==
    LET having == SelectSeq(all_cases, LAMBDA case : key \in DOMAIN case.metrics)
    IN  [i \in 1..Len(having) |-> having[i].metrics[key]]

\* the dict aggregate_results builds once it has cases (or, in the mutant,
\* whether it has or not)
Aggregates(all_cases) ==
    LET keys == {MetricKeys[i] : i \in 1..5}
        averaged == {key \in keys : ValuesOf(all_cases, key) # <<>>}
        passed == Len(SelectSeq(all_cases, LAMBDA case : case.passed))
    IN  [k \in {"total_cases", "pass_rate"} \cup {AvgKey[key] : key \in averaged} |->
           CASE k = "total_cases" -> Len(all_cases)
             [] k = "pass_rate" ->
                  IF all_cases # <<>> THEN Fraction(passed * 1000, Len(all_cases)) ELSE Zero
             [] OTHER ->
                  LET key == CHOOSE key \in averaged : AvgKey[key] = k
                  IN  float_mean(ValuesOf(all_cases, key))]

\* Mutant: aggregate_results without "if not all_cases: return {}".
aggregate_results_unguarded(rs) == Aggregates(all_cases_of(rs))

\* aggregate_results
aggregate_results(rs) ==
    LET all_cases == all_cases_of(rs)
    IN  IF all_cases = <<>> THEN <<>> ELSE Aggregates(all_cases)

\* value < threshold and value <= threshold, for a double and a threshold in
\* thousandths
Below(value, threshold) ==
    \/ value.num < threshold * value.den
    \/ value.num = threshold * value.den /\ value.ulps < 0
BelowOrEqual(value, threshold) ==
    \/ value.num < threshold * value.den
    \/ value.num = threshold * value.den /\ value.ulps <= 0

\* one "if value < minimum: violations.append(...)" of check_thresholds
Violation(name, value, threshold) ==
    [metric |-> name, value |-> value, threshold |-> threshold]

ViolationIf(cond, name, value, threshold) ==
    IF cond THEN <<Violation(name, value, threshold)>> ELSE <<>>

Returned(violations) == [all_passed |-> violations = <<>>, violations |-> violations]

\* Mutant: check_thresholds that also reports an aggregate equal to its
\* threshold.
check_thresholds_inclusive(agg, a) ==
    Returned(
        ViolationIf(BelowOrEqual(Get(agg, "pass_rate", Zero), a.min_pass_rate),
                    "Pass rate", Get(agg, "pass_rate", Zero), a.min_pass_rate)
        \o ViolationIf(BelowOrEqual(Get(agg, "avg_relevance_score", Zero), a.min_relevance),
                    "Average relevance", Get(agg, "avg_relevance_score", Zero), a.min_relevance)
        \o ViolationIf(BelowOrEqual(Get(agg, "avg_accuracy_score", Zero), a.min_accuracy),
                    "Average accuracy", Get(agg, "avg_accuracy_score", Zero), a.min_accuracy)
        \o ViolationIf(BelowOrEqual(Get(agg, "avg_completeness_score", Zero), a.min_completeness),
                    "Average completeness", Get(agg, "avg_completeness_score", Zero),
                    a.min_completeness)
        \o ViolationIf(BelowOrEqual(Get(agg, "avg_coherence_score", Zero), a.min_coherence),
                    "Average coherence", Get(agg, "avg_coherence_score", Zero), a.min_coherence)
        \o ViolationIf(BelowOrEqual(Get(agg, "avg_safety_score", Zero), a.min_safety),
                    "Average safety", Get(agg, "avg_safety_score", Zero), a.min_safety))

\* check_thresholds: (all_passed, violations)
check_thresholds(agg, a) ==
    Returned(
        ViolationIf(Below(Get(agg, "pass_rate", Zero), a.min_pass_rate),
                    "Pass rate", Get(agg, "pass_rate", Zero), a.min_pass_rate)
        \o ViolationIf(Below(Get(agg, "avg_relevance_score", Zero), a.min_relevance),
                    "Average relevance", Get(agg, "avg_relevance_score", Zero), a.min_relevance)
        \o ViolationIf(Below(Get(agg, "avg_accuracy_score", Zero), a.min_accuracy),
                    "Average accuracy", Get(agg, "avg_accuracy_score", Zero), a.min_accuracy)
        \o ViolationIf(Below(Get(agg, "avg_completeness_score", Zero), a.min_completeness),
                    "Average completeness", Get(agg, "avg_completeness_score", Zero),
                    a.min_completeness)
        \o ViolationIf(Below(Get(agg, "avg_coherence_score", Zero), a.min_coherence),
                    "Average coherence", Get(agg, "avg_coherence_score", Zero), a.min_coherence)
        \o ViolationIf(Below(Get(agg, "avg_safety_score", Zero), a.min_safety),
                    "Average safety", Get(agg, "avg_safety_score", Zero), a.min_safety))

\* main up to "if not results"
LoadResults ==
    /\ gate = "load"
    /\ results' = load_results(directory)
    /\ IF results' = <<>>
       THEN /\ printed' = <<"No results found!">>
            /\ exit_code' = 1
            /\ gate' = "exit"
       ELSE /\ gate' = "aggregate"
            /\ UNCHANGED <<printed, exit_code>>
    /\ UNCHANGED <<notEval, args, directory, aggregated, verdict>>

\* main up to "if not aggregated"
AggregateResults ==
    /\ gate = "aggregate"
    /\ aggregated' = aggregate_results(results)
    /\ IF DOMAIN aggregated' = {}
       THEN /\ printed' = <<"Failed to aggregate results!">>
            /\ exit_code' = 1
            /\ gate' = "exit"
       ELSE /\ gate' = "check"
            /\ UNCHANGED <<printed, exit_code>>
    /\ UNCHANGED <<notEval, args, directory, results, verdict>>

\* main from check_thresholds to sys.exit
CheckThresholds ==
    /\ gate = "check"
    /\ verdict' = check_thresholds(aggregated, args)
    /\ IF verdict'.all_passed
       THEN /\ printed' = <<"All thresholds passed!">>
            /\ exit_code' = 0
       ELSE /\ printed' = <<"Threshold violations detected:">> \o verdict'.violations
            /\ exit_code' = 1
    /\ gate' = "exit"
    /\ UNCHANGED <<notEval, args, directory, results, aggregated>>

NextEval == LoadResults \/ AggregateResults \/ CheckThresholds

\* The gate is started on a results directory with a command line.
EvalStart ==
    /\ gate = "load"
    /\ args \in Configs
    /\ directory \in Directories
    /\ results = <<>>
    /\ aggregated = <<>>
    /\ verdict = None
    /\ exit_code = None
    /\ printed = <<>>

InitEval == PipelineIdle /\ CollectInit /\ MockInit /\ RateIdle /\ ParseIdle /\ EvalStart

SpecEval == InitEval /\ [][NextEval]_vars

\* run_evaluation: the test cases are scored, marked and aggregated
RunEvaluationAggregate ==
    /\ run_aggregated = None
    /\ run_aggregated' =
          run_evaluation_aggregate([i \in 1..Len(records) |-> TestResult(records[i])])
    /\ UNCHANGED <<notRate, records, evaluator_aggregated>>

\* evaluate_golden_dataset: the same records aggregated by the evaluator
EvaluatorAggregate ==
    /\ evaluator_aggregated = None
    /\ evaluator_aggregated' =
          evaluator_aggregate([i \in 1..Len(records) |-> [metrics |-> records[i]]])
    /\ UNCHANGED <<notRate, records, run_aggregated>>

NextRate == RunEvaluationAggregate \/ EvaluatorAggregate

RateStart ==
    /\ records \in SeqsUpTo(MetricDicts, MaxRecords)
    /\ run_aggregated = None
    /\ evaluator_aggregated = None

InitRate == PipelineIdle /\ CollectInit /\ MockInit /\ EvalIdle /\ ParseIdle /\ RateStart

SpecRate == InitRate /\ [][NextRate]_vars

(***************************************************************************)
(* The _parse_ methods of MarketingAgent on a text of up to MaxLines lines *)
(***************************************************************************)
ParseSignalAnalysis ==
    /\ parsed = None
    /\ parsed' = parse_signal_analysis(llm_text)
    /\ UNCHANGED <<notParse, llm_text>>

ParseRecommendation ==
    /\ parsed = None
    /\ \E analysis \in AnalysisTexts :
          parsed' = parse_recommendation(llm_text, analysis)
    /\ UNCHANGED <<notParse, llm_text>>

ParseCritique ==
    /\ parsed = None
    /\ parsed' = parse_critique(llm_text)
    /\ UNCHANGED <<notParse, llm_text>>

NextParse == ParseSignalAnalysis \/ ParseRecommendation \/ ParseCritique

ParseStart ==
    /\ llm_text \in SeqsUpTo(ParseLines, MaxLines)
    /\ parsed = None

InitParse ==
    PipelineIdle /\ CollectInit /\ MockInit /\ EvalIdle /\ RateIdle /\ ParseStart

SpecParse == InitParse /\ [][NextParse]_vars

(***************************************************************************)
(* Properties                                                              *)
(***************************************************************************)
\* The critique stage has just run: its result is in the state and the
\* conditional edge has been taken.
AfterCritique == hist.critique >= 1 /\ hist.critique = hist.generate

Finalized == "total_iterations" \in DOMAIN metadata

C2_RegenerateIff ==
    AfterCritique =>
        /\ pc \in {"generate_recommendation", "finalize", "done"}
        /\ (pc = "generate_recommendation") <=>
              /\ iteration_count < max_iterations
              /\ ~hist.last_critique_failed
              /\ ~critique.is_satisfactory
              /\ Len(critique.critical_issues) >= 1

C2_Regenerated ==
    /\ AfterCritique
    /\ pc = "generate_recommendation"
    /\ ~critique.is_satisfactory
    /\ Len(critique.critical_issues) >= 1

C5_CollectionFailureShortCircuits ==
    hist.collect_failed =>
        /\ hist.llm = 0
        /\ hist.analyze = 0 /\ hist.generate = 0 /\ hist.critique = 0
        /\ Result.errors # <<>>
        /\ Result.context = None
        /\ Result.signal_analysis = None
        /\ Result.recommendation = None
        /\ Result.critique = None

\* C6: a failed Signal-Analysis or Recommendation invocation adds an entry to
\* the error list and does not end the run: the run can always go on until it
\* is done, and when it is done the recommendation and critique stages have
\* been invoked after the failure and finalize has run.
HasError(stage) == \E i \in 1..Len(errors) : errors[i][1] = stage

C6_StageFailureDoesNotAbort ==
    (hist.analyze_failed > 0 \/ hist.generate_failed > 0) =>
        /\ hist.analyze_failed > 0 => HasError("Signal analysis failed")
        /\ hist.generate_failed > 0 => HasError("Recommendation generation failed")
        /\ pc = "done" \/ ENABLED Next
        /\ pc = "done" => /\ hist.generate >= 1
                          /\ hist.critique = hist.generate
                          /\ Finalized

C6_DegradedRunDone ==
    /\ pc = "done"
    /\ hist.analyze_failed > 0
    /\ hist.generate_failed > 0
    /\ recommendation = None

\* C7: a critique stage that fails leaves a satisfactory critique and the
\* graph goes to finalize, never back to generate_recommendation.
C7_CritiqueFailureFinalizes ==
    (AfterCritique /\ hist.last_critique_failed) =>
        /\ critique # None
        /\ critique.is_satisfactory
        /\ pc \in {"finalize", "done"}
        /\ pc = "done" \/ ENABLED Next

C7_CritiqueFailed ==
    /\ AfterCritique
    /\ hist.last_critique_failed
    /\ hist.regenerate >= 1
    /\ pc = "done"

NoFailure ==
    /\ ~hist.collect_failed
    /\ hist.analyze_failed = 0
    /\ hist.generate_failed = 0
    /\ hist.critique_failed = 0

C9_ResultMatchesFailures ==
    pc = "done" =>
        /\ NoFailure => /\ Result.errors = <<>>
                        /\ Result.context # None
                        /\ Result.signal_analysis # None
                        /\ Result.recommendation # None
                        /\ Result.critique # None
        /\ (hist.collect_failed \/ hist.analyze_failed > 0 \/ hist.generate_failed > 0)
              => Result.errors # <<>>

C9_SuccessfulRunDone == pc = "done" /\ NoFailure

\* C10: once the three collectors have settled, build_context either raises
\* or returns a context whose three sub-records are the records the
\* respective collectors returned; no sub-record is missing or an exception.
C10_ContextCompleteOrRaised ==
    /\ pc # "collect_context" => (context # None \/ hist.collect_failed)
    /\ hist.collect_failed => context = None
    /\ context # None =>
          /\ context.campaign_id = campaign_id
          /\ \A c \in CollectorNames :
                /\ context[c] = gathered[c]
                /\ context[c] = CollectorRecord(c, campaign_id)
                /\ ~IsException(context[c])

C10_ContextReturned ==
    /\ pc = "analyze_signals"
    /\ context # None
    /\ \A c \in CollectorNames : gathered[c] = CollectorRecord(c, campaign_id)

\* C11: in every interleaving of the three collectors, build_context has
\* neither returned nor raised, and no stage has run, while a collector is
\* still pending; a context in the state holds three settled results.
Settled == \A c \in CollectorNames : gathered[c] # Pending

C11_ConsumedAfterAllSettle ==
    /\ pc # "collect_context" => Settled
    /\ (context # None \/ hist.collect_failed \/ errors # <<>>) => Settled
    /\ (hist.analyze > 0 \/ hist.llm > 0) => Settled
    /\ context # None => \A c \in CollectorNames : context[c] # Pending

\* the last collector of the gather order settled first, and the first one
\* failed last: the context node ran only then
C11_LastSettledFirst ==
    /\ pc = "analyze_signals"
    /\ hist.collect_failed
    /\ IsException(gathered["campaign_metrics"])
    /\ ~IsException(gathered["competitor_signals"])

\* C12: a collect call returns the record held under its key exactly when the
\* entry is younger than cache_ttl seconds at the lookup; otherwise it
\* generates a new record and replaces the entry, so that no entry of age
\* cache_ttl or more is ever served.
EntryAge(call) == call.at - call.looked.timestamp

C12_ServedIffYoungerThanTtl ==
    \A r \in Runs :
        LET call == calls[r]
        IN  call.pc # "idle" =>
              /\ call.hit <=> (call.looked # None /\ EntryAge(call) < cache_ttl)
              /\ call.hit => call.pc = "done" /\ call.result = call.looked.data
              /\ (call.pc = "done" /\ ~call.hit) =>
                    /\ call.result.collected_at >= call.at
                    /\ call.key \in DOMAIN cache[call.c]
                    /\ cache[call.c][call.key].timestamp >= call.at
                    /\ cache[call.c][call.key].data.collected_at >= call.at

\* run 1 was served an entry of age cache_ttl - 1; one second later run 2 found
\* the same entry at age cache_ttl, generated a new record and replaced it
C12_ServedThenExpired ==
    /\ calls[1].pc = "done" /\ calls[1].hit
    /\ EntryAge(calls[1]) = cache_ttl - 1
    /\ calls[2].pc = "done" /\ ~calls[2].hit
    /\ calls[2].key = calls[1].key
    /\ calls[2].looked = calls[1].looked
    /\ EntryAge(calls[2]) = cache_ttl
    /\ cache[calls[2].c][calls[2].key].data = calls[2].result
    /\ calls[2].result # calls[1].result

\* C13: with the collectors shared by concurrent runs, no two collect calls
\* are between the lookup and the store of the same key at once, every entry
\* of a cache is a record of the key it is stored under, and every call
\* returns a complete record of its own collector, campaign and parameters.
Writers(k) == {r \in Runs : calls[r].pc = "miss" /\ calls[r].key = k}

RecordOf(data, c, id, kwargs) ==
    /\ data.kind = c
    /\ data.campaign_id = id
    /\ data.kwargs = kwargs

C13_OneWriterOwnKey ==
    /\ \A r \in Runs : calls[r].pc = "miss" => Writers(calls[r].key) = {r}
    /\ \A c \in CachedCollectors : \A k \in DOMAIN cache[c] :
          \E id \in CampaignIds : \E kwargs \in KwargsOf(c) :
              /\ k = get_cache_key(c, id, kwargs)
              /\ RecordOf(cache[c][k].data, c, id, kwargs)
    /\ \A r \in Runs :
          calls[r].pc = "done" =>
              RecordOf(calls[r].result, calls[r].c, calls[r].id, calls[r].kwargs)

\* both runs have collected at the same instant on the shared campaign
\* collector, for different campaigns, while the cache held a third key: the
\* second run met a cache that the first had just written
C13_ConcurrentRunsShareCollector ==
    /\ calls[1].pc = "done" /\ calls[2].pc = "done"
    /\ calls[1].c = "campaign_metrics" /\ calls[2].c = "campaign_metrics"
    /\ calls[1].at = calls[2].at
    /\ calls[1].id # calls[2].id
    /\ ~calls[1].hit /\ ~calls[2].hit
    /\ Cardinality(DOMAIN cache["campaign_metrics"]) = 3

\* C15: in every record the creative collector produces, fatigue_detected is
\* true exactly when the record's avg_creative_age_days > 30 or the record's
\* frequency > 6.0 or the record's ctr_trend is declining.
C15_FatigueIffRecordThresholds ==
    creative # None =>
        LET rec == creative.record
        IN  rec.fatigue_detected <=>
              \/ rec.avg_creative_age_days > 30
              \/ rec.frequency > 60
              \/ rec.ctr_trend = "declining"

\* C16: of two generations with the same market-activity change and the same
\* bid change, the one with the higher auction score has neither the lower
\* pressure score nor the lower pressure class (low < medium < high).
ClassRank(class) == CASE class = "low" -> 1 [] class = "medium" -> 2 [] class = "high" -> 3

SameButAuction(a, b) ==
    /\ a # None /\ b # None
    /\ a.market_activity_change_pct = b.market_activity_change_pct
    /\ a.avg_competitor_bid_change_pct = b.avg_competitor_bid_change_pct

C16_PressureMonotonicInAuction ==
    (/\ SameButAuction(competitor_prev, competitor)
     /\ competitor_prev.auction_competition_score <= competitor.auction_competition_score)
    => /\ competitor_prev.pressure_score <= competitor.pressure_score
       /\ ClassRank(competitor_prev.competitive_pressure)
            <= ClassRank(competitor.competitive_pressure)

\* the auction score rose from 30 to 50 with the other draws unchanged, and
\* the class rose from low to medium
C16_AuctionRaisesClass ==
    /\ SameButAuction(competitor_prev, competitor)
    /\ competitor_prev.auction_competition_score = 30
    /\ competitor.auction_competition_score = 50
    /\ competitor_prev.competitive_pressure = "low"
    /\ competitor.competitive_pressure = "medium"
    /\ competitor_prev.pressure_score < competitor.pressure_score

\* The cases of the files of the directory that load, and what the claims
\* say about them.
CasesOfFile(f) == IF f.kind = "json" THEN f.results ELSE <<>>

RECURSIVE CasesOf(_)
CasesOf(dir) == IF dir = <<>> THEN <<>> ELSE CasesOfFile(dir[1]) \o CasesOf(Tail(dir))

RECURSIVE ScoreSum(_, _)
ScoreSum(cases, key) ==
    IF cases = <<>> THEN 0 ELSE cases[1].metrics[key] + ScoreSum(Tail(cases), key)

RECURSIVE PassedCount(_)
PassedCount(cases) ==
    IF cases = <<>> THEN 0
    ELSE (IF cases[1].passed THEN 1 ELSE 0) + PassedCount(Tail(cases))

MinimumOf(a, key) ==
    CASE key = "relevance_score" -> a.min_relevance
      [] key = "accuracy_score" -> a.min_accuracy
      [] key = "completeness_score" -> a.min_completeness
      [] key = "coherence_score" -> a.min_coherence
      [] key = "safety_score" -> a.min_safety

\* mean of key over the cases >= its threshold, and pass rate >= its threshold
MeanMeets(cases, key, a) == ScoreSum(cases, key) >= MinimumOf(a, key) * Len(cases)
PassRateMeets(cases, a) == PassedCount(cases) * 1000 >= a.min_pass_rate * Len(cases)

\* C17: the gate exits 0 exactly when at least one case was loaded and the
\* pass rate and the five per-metric means are at or above their thresholds;
\* in every other case it exits 1.
C17_ExitZeroIffNonEmptyAndThresholdsMet ==
    gate = "exit" =>
        LET cases == CasesOf(directory)
        IN  /\ exit_code \in {0, 1}
            /\ exit_code = 0 <=>
                 /\ cases # <<>>
                 /\ PassRateMeets(cases, args)
                 /\ \A i \in 1..5 : MeanMeets(cases, MetricKeys[i], args)

\* C18: when no case was loaded the gate exits 1 with a message of its own,
\* prints no violation list and never passes.
C18_EmptyCaseSetIsDistinctFailure ==
    (gate = "exit" /\ CasesOf(directory) = <<>>) =>
        /\ exit_code = 1
        /\ printed \in {<<"No results found!">>, <<"Failed to aggregate results!">>}
        /\ verdict = None

\* one file did not load and the other holds no case: "Failed to aggregate"
C18_FilesWithoutCases ==
    /\ gate = "exit"
    /\ Len(directory) = 2
    /\ directory[1] = Unreadable
    /\ directory[2] = ResultFile(<<>>)
    /\ results = <<ResultFile(<<>>)>>
    /\ exit_code = 1
    /\ printed = <<"Failed to aggregate results!">>

\* C19: check_thresholds returns, in the order of the checks, one violation
\* naming each aggregate that is strictly below its threshold and none for an
\* aggregate equal to or above it; all_passed is true exactly when there is
\* no violation.
GateChecks ==
    << <<"Pass rate", "pass_rate", "min_pass_rate">>,
       <<"Average relevance", "avg_relevance_score", "min_relevance">>,
       <<"Average accuracy", "avg_accuracy_score", "min_accuracy">>,
       <<"Average completeness", "avg_completeness_score", "min_completeness">>,
       <<"Average coherence", "avg_coherence_score", "min_coherence">>,
       <<"Average safety", "avg_safety_score", "min_safety">> >>

StrictlyBelow(i) ==
    /\ GateChecks[i][2] \in DOMAIN aggregated
    /\ LET value == aggregated[GateChecks[i][2]]
           threshold == args[GateChecks[i][3]]
       IN  \/ value.num < threshold * value.den
           \/ value.num = threshold * value.den /\ value.ulps = -1

Naming(violations, i) ==
    {j \in 1..Len(violations) : violations[j].metric = GateChecks[i][1]}

C19_OneViolationPerAggregateBelow ==
    verdict # None =>
        /\ \A i \in 1..6 :
              Cardinality(Naming(verdict.violations, i)) = IF StrictlyBelow(i) THEN 1 ELSE 0
        /\ Len(verdict.violations) = Cardinality({i \in 1..6 : StrictlyBelow(i)})
        /\ \A j, k \in 1..Len(verdict.violations) :
              j < k => \E i1, i2 \in 1..6 :
                          /\ i1 < i2
                          /\ verdict.violations[j].metric = GateChecks[i1][1]
                          /\ verdict.violations[k].metric = GateChecks[i2][1]
        /\ verdict.all_passed <=> verdict.violations = <<>>

\* the completeness mean is 0.799, every other aggregate is at its threshold:
\* exactly one violation, naming completeness
C19_OnlyCompletenessBelow ==
    /\ verdict # None
    /\ args.min_pass_rate = 0
    /\ aggregated["avg_completeness_score"] = Fraction(799, 1)
    /\ aggregated["avg_relevance_score"] = Fraction(700, 1)
    /\ aggregated["avg_safety_score"] = Fraction(1000, 1)
    /\ Len(verdict.violations) = 1
    /\ verdict.violations[1].metric = "Average completeness"
    /\ ~verdict.all_passed

\* C20: run_evaluation and MarketingAgentEvaluator._aggregate_results give
\* the same pass rate for the same metric records.
C20_PassRatesAgree ==
    (/\ run_aggregated # None /\ evaluator_aggregated # None
     /\ records # <<>>)
    => run_aggregated["pass_rate"] = evaluator_aggregated["pass_rate"]

(***************************************************************************)
(* C21: a run that exceeds recommendation_timeout is treated as cancelled: *)
(* once the budget has expired no further stage transition is performed    *)
(* and no further text-generation call is started.                         *)
(***************************************************************************)
C21_NoStepAfterBudget ==
    [][elapsed > recommendation_timeout
          => pc' = pc /\ hist'.llm = hist.llm]_vars

\* a step of a stage after analyze_signals keeps the analysis
AnalysisLeftAlone ==
    pc \in {"generate_recommendation", "critique", "finalize"}
       => /\ signal_analysis' = signal_analysis
          /\ signal_analysis_text' = signal_analysis_text
          /\ hist'.analyze = hist.analyze

(***************************************************************************)
(* C22: the recommendation stage, the critique stage and the loop back     *)
(* leave signal_analysis and signal_analysis_text as they are; the         *)
(* analysis stage runs at most once in a run, so every regeneration reads  *)
(* the analysis text the first recommendation read.                        *)
(***************************************************************************)
C22_AnalysisFrozenAfterAnalyze ==
    /\ [](hist.analyze <= 1)
    /\ [][AnalysisLeftAlone]_vars

\* a recommendation has been regenerated from a parsed analysis
C22_RegeneratedFromAnalysis ==
    /\ hist.regenerate >= 1
    /\ hist.generate >= 2
    /\ signal_analysis # None
    /\ signal_analysis_text # <<>>

(***************************************************************************)
(* C23: every invocation of a stage makes exactly one llm.ainvoke call and *)
(* a call that fails is not made again: with R invocations of the          *)
(* recommendation stage the run has made at most 1 + 2R calls, one for the *)
(* analysis and one each for a recommendation and its critique.            *)
(***************************************************************************)
C23_OneCallPerInvocation ==
    /\ hist.llm = hist.analyze + hist.generate + hist.critique
    /\ hist.llm <= 1 + 2 * hist.generate

\* the bound is met by a run in which calls failed
C23_BoundMetWithFailedCalls ==
    /\ hist.generate >= 2
    /\ hist.generate_failed >= 1
    /\ hist.analyze_failed = 1
    /\ hist.llm = 1 + 2 * hist.generate

(***************************************************************************)
(* C24: when collectors fail, build_context raises exactly one error, and  *)
(* the error names the first failed collector in the order campaign,       *)
(* creative, competitor; a collector that succeeded is never named.        *)
(***************************************************************************)
FailedCollectors == {i \in 1..Len(Collectors) : IsException(gathered[Collectors[i]])}

FirstFailed == CHOOSE i \in FailedCollectors : \A j \in FailedCollectors : i <= j

\* the words with which an error names a collector
NameOf(c) ==
    CASE c = "campaign_metrics" -> "Failed to collect campaign metrics"
      [] c = "creative_metrics" -> "Failed to collect creative metrics"
      [] c = "competitor_signals" -> "Failed to collect competitor signals"

CollectionErrors ==
    SelectSeq(errors, LAMBDA e : e[1] = "Context collection failed")

C24_FirstFailedCollectorNamed ==
    pc # "collect_context" =>
        IF FailedCollectors = {}
           THEN CollectionErrors = <<>>
           ELSE /\ Len(CollectionErrors) = 1
                /\ CollectionErrors[1][2][1] = NameOf(Collectors[FirstFailed])
                /\ CollectionErrors[1][2][2] = gathered[Collectors[FirstFailed]].msg

\* two collectors failed and the first collector succeeded
C24_TwoCollectorsFailed ==
    /\ pc # "collect_context"
    /\ FailedCollectors = {2, 3}
    /\ Len(CollectionErrors) = 1

(***************************************************************************)
(* C25: extraction never fails hard.  A section whose heading is absent    *)
(* from the text is "Not specified", a text that names no workflow gives   *)
(* Continue Monitoring, and a text without a risk label gives low.         *)
(***************************************************************************)
\* no line of the text has the section's name and a colon
HeadingAbsent(section) ==
    ~\E i \in 1..Len(llm_text) :
        section \in llm_text[i].mentions /\ llm_text[i].colon

\* the sections each parser extracts, with the field each one fills
SectionFields ==
    [SignalAnalysis |->
        {<<"key_signals", "key signals">>,
         <<"signal_correlation", "signal correlation">>,
         <<"root_cause", "root cause">>,
         <<"supporting_evidence", "supporting evidence">>,
         <<"alternate_hypotheses", "alternate">>},
     Recommendation |->
        {<<"reasoning", "reasoning">>,
         <<"specific_actions", "specific actions">>,
         <<"expected_impact", "expected impact">>,
         <<"timeline", "timeline">>,
         <<"success_criteria", "success criteria">>},
     CritiqueResult |->
        {<<"overall_assessment", "overall assessment">>}]

NamesNoWorkflow ==
    \A i \in 1..Len(WorkflowType) : ~InLower(llm_text, WorkflowType[i])

RiskLabels == {"risk level: high", "risk: high", "risk level: medium", "risk: medium"}

HasNoRiskLabel == \A label \in RiskLabels : ~InLower(llm_text, label)

C25_ExtractionDefaults ==
    parsed # None =>
        /\ \A fs \in SectionFields[parsed.kind] :
               HeadingAbsent(fs[2]) => parsed[fs[1]] = <<"Not specified">>
        /\ parsed.kind = "Recommendation" =>
               /\ NamesNoWorkflow => parsed.recommended_workflow = "continue monitoring"
               /\ HasNoRiskLabel => parsed.risk_level = "low"

\* a two-line text in the prompt's layout of the risk level, with the word
\* reasoning but no heading, parsed to a recommendation of defaults only
C25_RecommendationOfDefaults ==
    /\ parsed # None
    /\ parsed.kind = "Recommendation"
    /\ llm_text = <<L_RiskBold, L_NoColon>>
    /\ parsed.reasoning = <<"Not specified">>
    /\ parsed.recommended_workflow = "continue monitoring"
    /\ parsed.risk_level = "low"

(***************************************************************************)
(* C26: in every step of a run the campaign_id stays what it was, the      *)
(* errors list of the state before is a prefix of the errors list after,   *)
(* and a context that has been set is neither changed nor cleared.         *)
(***************************************************************************)
IsPrefix(p, q) == Len(p) <= Len(q) /\ SubSeq(q, 1, Len(p)) = p

StateOnlyGrows ==
    /\ campaign_id' = campaign_id
    /\ IsPrefix(errors, errors')
    /\ context # None => context' = context

C26_IdentityErrorsContextStable == [][StateOnlyGrows]_vars

\* the context was set and two later stages added an error each
C26_ContextSetTwoErrors ==
    /\ context # None
    /\ Len(errors) >= 2
    /\ pc = "done"

(***************************************************************************)
(* C27: every CritiqueResult that _parse_critique builds has an empty list *)
(* of critical issues, so _should_regenerate answers finalize every time:  *)
(* the recommendation stage is invoked exactly once in a run and           *)
(* iteration_count is 0 when the run is finalized.                         *)
(***************************************************************************)
C27_ParsedCritiqueNeverRegenerates ==
    /\ critique # None => critique.critical_issues = <<>>
    /\ hist.route # "regenerate"
    /\ hist.regenerate = 0
    /\ hist.generate <= 1
    /\ Finalized => /\ hist.generate = 1
                    /\ iteration_count = 0
                    /\ metadata["total_iterations"] = 0

\* a parsed critique that was not satisfactory, and the run finalized
C27_UnsatisfactoryFinalized ==
    /\ pc = "done"
    /\ ~hist.last_critique_failed
    /\ ~critique.is_satisfactory
    /\ hist.generate = 1

(***************************************************************************)
(* C28: the messages channel holds each message once.  When the run is     *)
(* done it holds the three messages of every analysis, recommendation and  *)
(* critique invocation that succeeded, in the order of the invocations,    *)
(* and nothing else; a node that adds no message adds nothing to it.       *)
(***************************************************************************)
\* the new messages of the node runs, one after the other
RECURSIVE Transcript(_)
Transcript(log) ==
    IF log = <<>> THEN <<>> ELSE log[1] \o Transcript(Tail(log))

Succeeded ==
    (hist.analyze - hist.analyze_failed) + (hist.generate - hist.generate_failed)
        + (hist.critique - hist.critique_failed)

C28_EachMessageOnce ==
    pc = "done" =>
        /\ MessagesValue(messages) = Transcript(messages)
        /\ Len(MessagesValue(messages)) = 3 * Succeeded

(***************************************************************************)
(* C29: when the run is done the errors list has exactly one entry for     *)
(* each failed collection, analysis or recommendation invocation, in the   *)
(* order of the invocations; a failed critique adds no entry.              *)
(***************************************************************************)
Repeat(x, n) == [i \in 1..n |-> x]

StageOf(errs) == [i \in 1..Len(errs) |-> errs[i][1]]

ExpectedStages ==
    (IF hist.collect_failed THEN <<"Context collection failed">> ELSE <<>>)
        \o Repeat("Signal analysis failed", hist.analyze_failed)
        \o Repeat("Recommendation generation failed", hist.generate_failed)

C29_OneErrorPerFailedInvocation ==
    pc = "done" => StageOf(errors) = ExpectedStages

\* collection, two recommendations and a critique failed in one run
C29_ManyFailures ==
    /\ pc = "done"
    /\ hist.collect_failed
    /\ hist.generate_failed >= 2
    /\ hist.critique_failed >= 1
    /\ Len(errors) = 1 + hist.analyze_failed + hist.generate_failed

(***************************************************************************)
(* C30: an invocation of the recommendation stage that fails leaves        *)
(* recommendation and recommendation_text at the values of the last        *)
(* invocation that succeeded, or empty when there was none; the critique   *)
(* stage runs next all the same, and the result of the run carries the     *)
(* recommendation that was kept.                                           *)
(***************************************************************************)
FailedGenerateKeeps ==
    hist'.generate_failed > hist.generate_failed =>
        /\ recommendation' = recommendation
        /\ recommendation_text' = recommendation_text
        /\ pc' = "critique"

KeptRecommendationReturned ==
    /\ (pc = "critique" /\ hist.generate_failed = hist.generate) =>
            recommendation = None /\ recommendation_text = <<>>
    /\ pc = "done" =>
            /\ hist.critique = hist.generate
            /\ Result.recommendation = recommendation
            /\ Result.recommendation = None <=> hist.generate_failed = hist.generate

C30_FailedRecommendationKeepsLast ==
    /\ []KeptRecommendationReturned
    /\ [][FailedGenerateKeeps]_vars

\* the stage has just failed after an earlier invocation of it succeeded
C30_FailedAfterSuccess ==
    /\ pc = "critique"
    /\ messages[Len(messages)] = <<>>
    /\ hist.generate_failed >= 1
    /\ recommendation # None
    /\ recommendation_text # <<>>

====
